---- MODULE Spec2Model ----
(***************************************************************************)
(* The expression compiler of c-compiler-edu: Lexer::tokenize (lexer.rs),  *)
(* the recursive-descent Parser (parser.rs), the code generator gen        *)
(* (codegen.rs) and the driver main (main.rs), followed by the execution   *)
(* of the emitted instructions on the stack machine they are written for.  *)
(*                                                                         *)
(* A character is a one-element string; the three characters outside ASCII *)
(* are written by their code point.  A string (String, &str, Chars) is a   *)
(* sequence of characters.  An iterator (Peekable<Chars>,                  *)
(* Peekable<IntoIter<Token>>) is the sequence of the items it has yet to   *)
(* yield.  An Option is a sequence of length 0 (None) or 1 (Some).         *)
(***************************************************************************)
EXTENDS Integers, Sequences, FiniteSets, TLC

VARIABLES
    input,      \* Lexer.input: the program text (args[1])
    chars,      \* Lexer.chars: the scan cursor
    tokens,     \* Lexer.tokens: the token cursor
    pc,         \* position of main
    node,       \* the Option<Node> main holds after Parser::expr
    stdout,     \* the instruction lines printed so far
    stderr,     \* the Option of the error report printed before exit(1)
    below,      \* machine: the pops that read below the depth of the stack at entry
    stack,      \* machine: the stack, top last
    rax, rdi, rdx, flags,  \* machine: registers
    origin,     \* history: the expression the program text was written from
    ret         \* the Option of the value a method of the Lexer, called on its own, returned

vars == <<input, chars, tokens, pc, node, stdout, stderr, below, stack, rax, rdi, rdx, flags,
          origin, ret>>

-----------------------------------------------------------------------------
(* Bounds of the model *)

\* longest input of the exhaustive family of inputs
MaxLen == 3
\* width in bits of isize and of a machine register (64 on the target,
\* scaled down so that overflow is reachable with short literals)
IsizeBits == 5
\* the small operands of `a op b` are -MaxOperand..MaxOperand
MaxOperand == 3
\* the positive operands of `a op1 b op2 c` are 1..MaxTernaryOperand
MaxTernaryOperand == 2

-----------------------------------------------------------------------------
(* Characters *)

AsciiDigits == <<"0", "1", "2", "3", "4", "5", "6", "7", "8", "9">>

\* Outside ASCII: U+00E9 (2 bytes in UTF-8, a letter), U+3000 (3 bytes,
\* White_Space) and U+0663 (2 bytes, ARABIC-INDIC DIGIT THREE: numeric, not
\* an ASCII digit)

IsAsciiDigit(c) == \E i \in 1..10 : AsciiDigits[i] = c

DigitVal(c) == (CHOOSE i \in 1..10 : AsciiDigits[i] = c) - 1

\* char::is_whitespace
is_whitespace(c) == c \in {" ", "U+3000"}

\* char::is_numeric
is_numeric(c) == IsAsciiDigit(c) \/ c = "U+0663"

\* char::len_utf8
len_utf8(c) == CASE c = "U+00E9" -> 2
                 [] c = "U+3000" -> 3
                 [] c = "U+0663" -> 2
                 [] OTHER -> 1

RECURSIVE ByteLen(_)
\* String::len: the length in bytes
ByteLen(s) == IF s = <<>> THEN 0 ELSE len_utf8(Head(s)) + ByteLen(Tail(s))

\* Iterator::count on Chars: the number of characters
CharCount(s) == Len(s)

-----------------------------------------------------------------------------
(* isize *)

Modulus == 2 ^ IsizeBits
IsizeMax == 2 ^ (IsizeBits - 1) - 1
IsizeMin == - (2 ^ (IsizeBits - 1))

\* two's complement wrap-around of a mathematical integer into isize
Wrap(x) == ((x - IsizeMin) % Modulus) + IsizeMin

\* the unsigned reading of a register
Unsigned(x) == x % Modulus

Abs(x) == IF x < 0 THEN -x ELSE x

\* division truncating toward zero, b # 0
TruncDiv(a, b) == LET q == Abs(a) \div Abs(b)
                  IN IF (a < 0) = (b < 0) THEN q ELSE -q

RECURSIVE DecVal(_, _)
\* the value of a run of ASCII digits, accumulated left to right; -1 once
\* the accumulator leaves the range limit allows
DecVal(s, limit) ==
    IF s = <<>> THEN 0
    ELSE LET front == DecVal(SubSeq(s, 1, Len(s) - 1), limit)
             v == front * 10 + DigitVal(s[Len(s)])
         IN IF front = -1 \/ v > limit THEN -1 ELSE v

\* str::parse::<isize>: an optional sign, then one or more ASCII digits,
\* and the value must fit isize
ParseIsize(s) ==
    LET signed == s # <<>> /\ s[1] \in {"+", "-"}
        neg == s # <<>> /\ s[1] = "-"
        digits == IF signed THEN Tail(s) ELSE s
        limit == IF neg THEN -IsizeMin ELSE IsizeMax
    IN IF digits = <<>> \/ \E i \in 1..Len(digits) : ~IsAsciiDigit(digits[i])
       THEN [ok |-> FALSE]
       ELSE LET v == DecVal(digits, limit)
            IN IF v = -1 THEN [ok |-> FALSE]
               ELSE [ok |-> TRUE, num |-> IF neg THEN -v ELSE v]

-----------------------------------------------------------------------------
(* Reserved, TokenKind, Token *)

Reserved == {"LeftParen", "RightParen", "Plus", "Minus", "Asterisk", "Slash",
             "Eq", "Gt", "Ge", "Le", "Lt", "Ne"}

\* impl fmt::Display for Reserved
ReservedStr(r) == CASE r = "LeftParen" -> <<"(">>
                    [] r = "RightParen" -> <<")">>
                    [] r = "Plus" -> <<"+">>
                    [] r = "Minus" -> <<"-">>
                    [] r = "Asterisk" -> <<"*">>
                    [] r = "Slash" -> <<"/">>
                    [] r = "Eq" -> <<"=", "=">>
                    [] r = "Gt" -> <<">">>
                    [] r = "Ge" -> <<">", "=">>
                    [] r = "Le" -> <<"<", "=">>
                    [] r = "Lt" -> <<"<">>
                    [] r = "Ne" -> <<"!", "=">>

\* Reserved::len
ReservedLen(r) == ByteLen(ReservedStr(r))

\* impl TryFrom<&char> for Reserved
ReservedTryFrom(c) == CASE c = "(" -> <<"LeftParen">>
                        [] c = ")" -> <<"RightParen">>
                        [] c = "+" -> <<"Plus">>
                        [] c = "-" -> <<"Minus">>
                        [] c = "*" -> <<"Asterisk">>
                        [] c = "/" -> <<"Slash">>
                        [] OTHER -> <<>>

KindReserved(r) == [tag |-> "Reserved", sym |-> r]
KindNum(n) == [tag |-> "Num", num |-> n]
KindEOF == [tag |-> "EOF"]

\* Token::new
Token(kind, cs) == [kind |-> kind, chars |-> cs]

\* the error messages, by meaning
MsgUnexpectedChar == "unexpected character"
MsgNotANumber == "not a number"
MsgCannotTokenize == "cannot tokenize"
MsgUnexpectedToken == "unexpected token"
MsgNotReserved(r) == "is not " \o r

\* n applications of Iterator::next
Skip(cs, n) == SubSeq(cs, n + 1, Len(cs))

-----------------------------------------------------------------------------
(* Lexer *)

Min(a, b) == IF a < b THEN a ELSE b

\* Lexer::start_with, on the scan cursor cs
start_with(cs, s) ==
    LET target == SubSeq(cs, 1, Min(ByteLen(s), Len(cs)))
    IN IF \E i \in 1..Len(target) : i <= Len(s) /\ target[i] # s[i]
       THEN FALSE
       ELSE ~(Len(s) > Len(target))

\* the minus sign kept before every digit, 0 included
push_sign_always(result, op, c) == IF op = "-" THEN Append(result, op) ELSE result

\* Lexer::take_num_str at a sign op that the digit c follows: the text so
\* far, with the sign pushed or not
push_sign(result, op, c) == IF op = "-" /\ c # "0" THEN Append(result, op) ELSE result

RECURSIVE take_num_loop(_, _)
\* the loop of Lexer::take_num_str: cs is self.chars, result the text so far
take_num_loop(cs, result) ==
    IF cs = <<>> THEN [ok |-> TRUE, s |-> result, chars |-> cs]
    ELSE LET c == Head(cs) IN
      IF ByteLen(result) = 0 /\ is_whitespace(c) THEN take_num_loop(Tail(cs), result)
      ELSE IF c \in {"+", "-"} THEN
        IF ByteLen(result) = 0 THEN
          IF Len(cs) >= 2 THEN
            IF is_numeric(cs[2])
            THEN take_num_loop(Tail(cs), push_sign(result, c, cs[2]))
            ELSE [ok |-> FALSE, s |-> result, c |-> c, chars |-> cs]
          ELSE [ok |-> FALSE, s |-> result, c |-> c, chars |-> cs]
        ELSE [ok |-> FALSE, s |-> result, c |-> c, chars |-> cs]
      ELSE IF is_numeric(c) THEN
        IF ByteLen(result) = 0 /\ c = "0" THEN
          IF Tail(cs) # <<>>
          THEN [ok |-> FALSE, s |-> <<"0">>, c |-> Head(Tail(cs)), chars |-> Tail(cs)]
          ELSE [ok |-> TRUE, s |-> <<"0">>, chars |-> Tail(cs)]
        ELSE take_num_loop(Tail(cs), Append(result, c))
      ELSE [ok |-> FALSE, s |-> result, c |-> c, chars |-> cs]

\* the character that ends the literal consumed with it
take_num_str_consuming(cs) ==
    LET r == take_num_loop(cs, <<>>)
    IN IF r.ok THEN r ELSE [r EXCEPT !.chars = Tail(r.chars)]

\* Lexer::take_num_str
take_num_str(cs) == take_num_loop(cs, <<>>)

\* the one-character symbols tried before the two-character ones
ComparisonSymbol_shortest(cs) ==
    IF start_with(cs, <<"<">>) THEN <<"Lt">>
    ELSE IF start_with(cs, <<">">>) THEN <<"Gt">>
    ELSE IF start_with(cs, <<"=", "=">>) THEN <<"Eq">>
    ELSE IF start_with(cs, <<"!", "=">>) THEN <<"Ne">>
    ELSE IF start_with(cs, <<"<", "=">>) THEN <<"Le">>
    ELSE IF start_with(cs, <<">", "=">>) THEN <<"Ge">>
    ELSE <<>>

\* the symbol tokenize picks at one of = ! < >
ComparisonSymbol(cs) ==
    IF start_with(cs, <<"=", "=">>) THEN <<"Eq">>
    ELSE IF start_with(cs, <<"!", "=">>) THEN <<"Ne">>
    ELSE IF start_with(cs, <<"<", "=">>) THEN <<"Le">>
    ELSE IF start_with(cs, <<">", "=">>) THEN <<"Ge">>
    ELSE IF start_with(cs, <<"<">>) THEN <<"Lt">>
    ELSE IF start_with(cs, <<">">>) THEN <<"Gt">>
    ELSE <<>>

\* where tokenize leaves the scan cursor after a Number token
NumberTokenChars(start, after) == after

RECURSIVE tokenize_loop(_, _)
\* the loop of Lexer::tokenize: cs is self.chars, result the tokens so far
tokenize_loop(cs, result) ==
    IF cs = <<>>
    THEN [ok |-> TRUE, result |-> Append(result, Token(KindEOF, cs)), chars |-> cs]
    ELSE LET c == Head(cs) IN
      IF is_whitespace(c) THEN tokenize_loop(Tail(cs), result)
      ELSE IF c \in {"(", ")", "+", "-", "*", "/"} THEN
        LET reserved == ReservedTryFrom(c) IN
        IF reserved # <<>>
        THEN tokenize_loop(Tail(cs), Append(result, Token(KindReserved(reserved[1]), cs)))
        ELSE [ok |-> FALSE, msg |-> MsgUnexpectedChar, chars |-> cs]
      ELSE IF c \in {"=", "!", "<", ">"} THEN
        LET reserved == ComparisonSymbol(cs) IN
        IF reserved # <<>>
        THEN tokenize_loop(Skip(cs, ReservedLen(reserved[1])),
                           Append(result, Token(KindReserved(reserved[1]), cs)))
        ELSE [ok |-> FALSE, msg |-> MsgUnexpectedChar, chars |-> cs]
      ELSE IF is_numeric(c) THEN
        LET t == take_num_str(cs)
            num == ParseIsize(t.s)
        IN IF num.ok
           THEN tokenize_loop(t.chars,
                    Append(result, Token(KindNum(num.num), NumberTokenChars(cs, t.chars))))
           ELSE [ok |-> FALSE, msg |-> MsgNotANumber, chars |-> t.chars]
      ELSE [ok |-> FALSE, msg |-> MsgCannotTokenize, chars |-> cs]

\* Lexer::tokenize on a lexer whose scan cursor is cs: the Result, the scan
\* cursor it leaves (chars) and, when Ok, the tokens it stores in the lexer
tokenize(cs) == tokenize_loop(cs, <<>>)

\* Lexer::at_eof
at_eof(ts) == ts # <<>> /\ Head(ts).kind.tag = "EOF"

\* any reserved symbol taken for the expected one
consume_any(ts, expect) ==
    IF ts # <<>> /\ Head(ts).kind.tag = "Reserved"
    THEN [ok |-> TRUE, tokens |-> Tail(ts)]
    ELSE [ok |-> FALSE, tokens |-> ts]

\* Lexer::consume: the bool and the token cursor it leaves
consume(ts, expect) ==
    IF ts # <<>> /\ Head(ts).kind.tag = "Reserved" /\ Head(ts).kind.sym = expect
    THEN [ok |-> TRUE, tokens |-> Tail(ts)]
    ELSE [ok |-> FALSE, tokens |-> ts]

\* Lexer::expect
expect(ts, expected) ==
    IF ts # <<>> /\ Head(ts).kind.tag = "Reserved" /\ Head(ts).kind.sym = expected
    THEN [ok |-> TRUE, tokens |-> Tail(ts)]
    ELSE [ok |-> FALSE, tokens |-> ts, msg |-> MsgNotReserved(expected)]

\* any token taken for a number, the value 0 for one that is none
expect_number_any(ts) ==
    IF ts # <<>>
    THEN [ok |-> TRUE, tokens |-> Tail(ts),
          num |-> IF Head(ts).kind.tag = "Num" THEN Head(ts).kind.num ELSE 0]
    ELSE [ok |-> FALSE, tokens |-> ts, msg |-> MsgNotANumber]

\* Lexer::expect_number
expect_number(ts) ==
    IF ts # <<>> /\ Head(ts).kind.tag = "Num"
    THEN [ok |-> TRUE, tokens |-> Tail(ts), num |-> Head(ts).kind.num]
    ELSE [ok |-> FALSE, tokens |-> ts, msg |-> MsgNotANumber]

\* the length error_at subtracts the remaining text from
ErrorAtBase(in) == ByteLen(in)

\* Lexer::error_at: the offset of the caret
error_pos(in, cs, ts) ==
    LET is_tokenizing == cs # <<>>
    IN IF is_tokenizing THEN ErrorAtBase(in) - CharCount(cs)
       ELSE IF ts # <<>> THEN ErrorAtBase(in) - CharCount(Head(ts).chars)
       ELSE ErrorAtBase(in)

\* Lexer::error_at: the report, the input line and under it pos blanks,
\* a caret and the message
error_at(in, cs, ts, msg) == [text |-> in, pos |-> error_pos(in, cs, ts), msg |-> msg]

-----------------------------------------------------------------------------
(* Parser *)

\* Node::new
Node(kind, lhs, rhs) == [kind |-> kind, lhs |-> lhs, rhs |-> rhs]

NodeKind(tag) == [tag |-> tag]
NodeKindNum(n) == [tag |-> "Num", num |-> n]

\* a binary node with both children present
Bin(tag, l, r) == Node(NodeKind(tag), <<l>>, <<r>>)
\* a number leaf
Leaf(n) == Node(NodeKindNum(n), <<>>, <<>>)

POk(n, ts) == [ok |-> TRUE, node |-> n, tokens |-> ts]
PErr(msg, ts) == [ok |-> FALSE, msg |-> msg, tokens |-> ts]

RECURSIVE expr(_), equality(_), equality_loop(_, _), relational(_), relational_loop(_, _)
RECURSIVE add(_), add_loop(_, _), mul(_), mul_loop(_, _), unary(_), primary(_)

\* Parser::primary, after expr returned e inside the parentheses and
\* expect(RightParen) returned rp
primary_close(e, rp) == IF ~rp.ok THEN PErr(rp.msg, rp.tokens) ELSE POk(e.node, rp.tokens)

\* Parser::primary, after expr returned e inside the parentheses
primary_paren(e) == IF ~e.ok THEN e ELSE primary_close(e, expect(e.tokens, "RightParen"))

\* a missing operand taken for the number 0
primary_number_recovering(n) == IF n.ok THEN POk(Leaf(n.num), n.tokens)
                                ELSE POk(Leaf(0), n.tokens)

\* Parser::primary, when no parenthesis opens: n is what expect_number returned
primary_number(n) == IF n.ok THEN POk(Leaf(n.num), n.tokens)
                     ELSE PErr(MsgUnexpectedToken, n.tokens)

\* Parser::primary
primary(ts) ==
    LET lp == consume(ts, "LeftParen") IN
    IF lp.ok THEN primary_paren(expr(lp.tokens))
    ELSE primary_number(expect_number(ts))

\* the operands of the subtraction the other way round
NegNode_reversed(operand) == Bin("Sub", operand, Leaf(0))

\* a signed number folded into one leaf
NegNode_folded(operand) ==
    IF operand.kind.tag = "Num" THEN Leaf(-operand.kind.num) ELSE Bin("Sub", Leaf(0), operand)

\* the node Parser::unary builds for a leading minus
NegNode(operand) == Bin("Sub", Leaf(0), operand)

\* Parser::unary, after a leading minus: p is what primary returned
unary_minus(p) == IF p.ok THEN POk(NegNode(p.node), p.tokens) ELSE p

\* Parser::unary
unary(ts) ==
    LET plus == consume(ts, "Plus")
        minus == consume(ts, "Minus")
    IN IF plus.ok THEN primary(plus.tokens)
       ELSE IF minus.ok THEN unary_minus(primary(minus.tokens))
       ELSE primary(ts)

\* one turn of the loop of Parser::mul: u is what unary returned to the
\* right of the operator
mul_step(tag, n, u) == IF u.ok THEN mul_loop(Bin(tag, n, u.node), u.tokens) ELSE u

\* the loop of Parser::mul
mul_loop(n, ts) ==
    LET a == consume(ts, "Asterisk")
        s == consume(ts, "Slash")
    IN IF a.ok THEN mul_step("Mul", n, unary(a.tokens))
       ELSE IF s.ok THEN mul_step("Div", n, unary(s.tokens))
       ELSE POk(n, ts)

\* Parser::mul, after the first unary returned u
mul_first(u) == IF u.ok THEN mul_loop(u.node, u.tokens) ELSE u

\* Parser::mul
mul(ts) == mul_first(unary(ts))

\* one turn of the loop of Parser::add: m is what mul returned to the right
\* of the operator
add_step(tag, n, m) == IF m.ok THEN add_loop(Bin(tag, n, m.node), m.tokens) ELSE m

\* the loop taking unary operands, where Parser::add takes mul operands
add_loop_unary(n, ts) ==
    LET p == consume(ts, "Plus")
        s == consume(ts, "Minus")
    IN IF p.ok THEN add_step("Add", n, unary(p.tokens))
       ELSE IF s.ok THEN add_step("Sub", n, unary(s.tokens))
       ELSE POk(n, ts)

\* the loop of Parser::add
add_loop(n, ts) ==
    LET p == consume(ts, "Plus")
        s == consume(ts, "Minus")
    IN IF p.ok THEN add_step("Add", n, mul(p.tokens))
       ELSE IF s.ok THEN add_step("Sub", n, mul(s.tokens))
       ELSE POk(n, ts)

\* Parser::add, after the first mul returned m
add_first(m) == IF m.ok THEN add_loop(m.node, m.tokens) ELSE m

\* Parser::add
add(ts) == add_first(mul(ts))

\* the node with the operands never swapped
RelNode_unswapped(tag, is_reverse, n, a) == Bin(tag, n, a)

\* the node Parser::relational builds from the accumulated node and the
\* add term to its right
RelNode(tag, is_reverse, n, a) == IF is_reverse THEN Bin(tag, a, n) ELSE Bin(tag, n, a)

\* one turn of the loop of Parser::relational: a is what add returned to the
\* right of the operator
relational_step(tag, is_reverse, n, a) ==
    IF a.ok THEN relational_loop(RelNode(tag, is_reverse, n, a.node), a.tokens) ELSE a

\* the loop of Parser::relational
relational_loop(n, ts) ==
    LET lt == consume(ts, "Lt")
        le == consume(ts, "Le")
        gt == consume(ts, "Gt")
        ge == consume(ts, "Ge")
    IN IF ~(lt.ok \/ le.ok \/ gt.ok \/ ge.ok) THEN POk(n, ts)
       ELSE relational_step(IF lt.ok \/ (~le.ok /\ gt.ok) THEN "Lt" ELSE "Le",
                            ~(lt.ok \/ le.ok),
                            n,
                            add(IF lt.ok THEN lt.tokens ELSE IF le.ok THEN le.tokens
                                ELSE IF gt.ok THEN gt.tokens ELSE ge.tokens))

\* Parser::relational, after the first add returned a
relational_first(a) == IF a.ok THEN relational_loop(a.node, a.tokens) ELSE a

\* Parser::relational
relational(ts) == relational_first(add(ts))

\* one turn of the loop of Parser::equality: r is what relational returned
\* to the right of the operator
equality_step(tag, n, r) == IF r.ok THEN equality_loop(Bin(tag, n, r.node), r.tokens) ELSE r

\* the loop of Parser::equality
equality_loop(n, ts) ==
    LET eq == consume(ts, "Eq")
        ne == consume(ts, "Ne")
    IN IF ~(eq.ok \/ ne.ok) THEN POk(n, ts)
       ELSE equality_step(IF eq.ok THEN "Eq" ELSE "Ne", n,
                          relational(IF eq.ok THEN eq.tokens ELSE ne.tokens))

\* Parser::equality, after the first relational returned r
equality_first(r) == IF r.ok THEN equality_loop(r.node, r.tokens) ELSE r

\* Parser::equality
equality(ts) == equality_first(relational(ts))

\* Parser::expr
expr(ts) == equality(ts)

-----------------------------------------------------------------------------
(* Code generator: a printed line is a record naming the instruction and *)
(* its operands                                                          *)

Line(op) == [op |-> op]
PushImm(n) == [op |-> "push", imm |-> n]
PushReg(r) == [op |-> "push", reg |-> r]
Pop(r) == [op |-> "pop", reg |-> r]
Op2(op, dst, src) == [op |-> op, dst |-> dst, src |-> src]
Op1(op, r) == [op |-> op, reg |-> r]

\* one pop for the two operands
GenPops_single == <<Pop("rdi")>>

\* the pops in the other order
GenPops_swapped == <<Pop("rax"), Pop("rdi")>>

\* the two pops gen prints after the code of both operands
GenPops == <<Pop("rdi"), Pop("rax")>>

\* the lines of the operators, with setl printed for Le
GenOperator_setl(tag) ==
    CASE tag = "Add" -> <<Op2("add", "rax", "rdi")>>
      [] tag = "Sub" -> <<Op2("sub", "rax", "rdi")>>
      [] tag = "Mul" -> <<Op2("imul", "rax", "rdi")>>
      [] tag = "Div" -> <<Line("cqo"), Op1("idiv", "rdi")>>
      [] tag = "Eq" -> <<Op2("cmp", "rax", "rdi"), Op1("sete", "al"), Op2("movzb", "rax", "al")>>
      [] tag = "Ne" -> <<Op2("cmp", "rax", "rdi"), Op1("setne", "al"), Op2("movzb", "rax", "al")>>
      [] tag = "Lt" -> <<Op2("cmp", "rax", "rdi"), Op1("setl", "al"), Op2("movzb", "rax", "al")>>
      [] tag = "Le" -> <<Op2("cmp", "rax", "rdi"), Op1("setl", "al"), Op2("movzb", "rax", "al")>>

\* the lines gen prints for the operator of a node
GenOperator(tag) ==
    CASE tag = "Add" -> <<Op2("add", "rax", "rdi")>>
      [] tag = "Sub" -> <<Op2("sub", "rax", "rdi")>>
      [] tag = "Mul" -> <<Op2("imul", "rax", "rdi")>>
      [] tag = "Div" -> <<Line("cqo"), Op1("idiv", "rdi")>>
      [] tag = "Eq" -> <<Op2("cmp", "rax", "rdi"), Op1("sete", "al"), Op2("movzb", "rax", "al")>>
      [] tag = "Ne" -> <<Op2("cmp", "rax", "rdi"), Op1("setne", "al"), Op2("movzb", "rax", "al")>>
      [] tag = "Lt" -> <<Op2("cmp", "rax", "rdi"), Op1("setl", "al"), Op2("movzb", "rax", "al")>>
      [] tag = "Le" -> <<Op2("cmp", "rax", "rdi"), Op1("setle", "al"), Op2("movzb", "rax", "al")>>

RECURSIVE gen(_)
\* gen: the lines it prints for a node
gen(n) ==
    IF n.kind.tag = "Num" THEN <<PushImm(n.kind.num)>>
    ELSE (IF n.lhs # <<>> THEN gen(n.lhs[1]) ELSE <<>>)
         \o (IF n.rhs # <<>> THEN gen(n.rhs[1]) ELSE <<>>)
         \o GenPops
         \o GenOperator(n.kind.tag)
         \o <<PushReg("rax")>>

\* the lines main prints before gen
Prologue == <<Line(".intel_syntax noprefix"), Line(".globl main"), Line("main:")>>

\* the lines main prints after gen
Epilogue == <<Pop("rax"), Line("ret")>>

-----------------------------------------------------------------------------
(* The machine the lines are written for.  A register holds an isize; the  *)
(* stack is counted from its depth at the entry of main, where the return  *)
(* address lies.                                                           *)

UndefinedFlags == [def |-> FALSE, zf |-> FALSE, sf |-> FALSE, of |-> FALSE]

\* the flags after cmp a, b
CmpFlags(a, b) == [def |-> TRUE, zf |-> (a - b = 0), sf |-> (Wrap(a - b) < 0),
                   of |-> (a - b < IsizeMin \/ a - b > IsizeMax)]

\* the state of the machine at the entry of main: the registers hold
\* whatever the caller left there
Entry(garbage) == [status |-> "running", stack |-> <<>>, rax |-> garbage, rdi |-> garbage,
                   rdx |-> garbage, flags |-> UndefinedFlags, garbage |-> garbage, below |-> 0]

\* the condition a setcc instruction reads; undefined flags read as garbage
Condition(op, m) ==
    IF ~m.flags.def THEN m.garbage % 2 = 1
    ELSE CASE op = "sete" -> m.flags.zf
           [] op = "setne" -> ~m.flags.zf
           [] op = "setl" -> m.flags.sf # m.flags.of
           [] op = "setle" -> m.flags.zf \/ (m.flags.sf # m.flags.of)

\* register r of m
Reg(m, r) == IF r = "rax" THEN m.rax ELSE IF r = "rdi" THEN m.rdi ELSE m.rdx

\* m with v written to register r
SetReg(m, r, v) == IF r = "rax" THEN [m EXCEPT !.rax = v]
                   ELSE IF r = "rdi" THEN [m EXCEPT !.rdi = v]
                   ELSE [m EXCEPT !.rdx = v]

\* the low byte of a register (al of rax)
LowByte(v) == Unsigned(v) % 256

\* a register with its low byte replaced
WithLowByte(v, b) == Wrap(Unsigned(v) - LowByte(v) + b)

\* idiv src: rdx:rax divided by src, the quotient to rax and the remainder
\* to rdx; a zero divisor or a quotient that does not fit raises #DE
Idiv(m, src) ==
    LET dividend == m.rdx * Modulus + Unsigned(m.rax)
        q == TruncDiv(dividend, src)
    IN IF src = 0 THEN [m EXCEPT !.status = "trap"]
       ELSE IF q < IsizeMin \/ q > IsizeMax THEN [m EXCEPT !.status = "trap"]
       ELSE [m EXCEPT !.rax = q, !.rdx = dividend - q * src, !.flags = UndefinedFlags]

\* one instruction
Step(m, l) ==
    CASE l.op = "push" ->
           [m EXCEPT !.stack = Append(@, IF "imm" \in DOMAIN l THEN l.imm ELSE Reg(m, l.reg))]
      [] l.op = "pop" ->
           IF m.stack = <<>>
           THEN [SetReg(m, l.reg, m.garbage) EXCEPT !.below = @ + 1]
           ELSE [SetReg(m, l.reg, m.stack[Len(m.stack)])
                    EXCEPT !.stack = SubSeq(m.stack, 1, Len(m.stack) - 1)]
      [] l.op = "add" -> [m EXCEPT !.rax = Wrap(m.rax + m.rdi),
                                   !.flags = CmpFlags(Wrap(m.rax + m.rdi), 0)]
      [] l.op = "sub" -> [m EXCEPT !.rax = Wrap(m.rax - m.rdi), !.flags = CmpFlags(m.rax, m.rdi)]
      [] l.op = "imul" -> [m EXCEPT !.rax = Wrap(m.rax * m.rdi), !.flags = UndefinedFlags]
      [] l.op = "cqo" -> [m EXCEPT !.rdx = IF m.rax < 0 THEN -1 ELSE 0]
      [] l.op = "idiv" -> Idiv(m, Reg(m, l.reg))
      [] l.op = "cmp" -> [m EXCEPT !.flags = CmpFlags(m.rax, m.rdi)]
      [] l.op \in {"sete", "setne", "setl", "setle"} ->
           [m EXCEPT !.rax = WithLowByte(m.rax, IF Condition(l.op, m) THEN 1 ELSE 0)]
      [] l.op = "movzb" -> [m EXCEPT !.rax = LowByte(m.rax)]
      [] l.op = "ret" ->
           [m EXCEPT !.status = IF m.stack = <<>> /\ m.below = 0 THEN "returned" ELSE "fault"]
      [] OTHER -> m

RECURSIVE Exec(_, _, _)
\* the run of the lines from line i on, up to ret or a trap
Exec(lines, i, m) ==
    IF m.status # "running" THEN m
    ELSE IF i > Len(lines) THEN [m EXCEPT !.status = "fault"]
    ELSE Exec(lines, i + 1, Step(m, lines[i]))

\* what the caller may have left in the registers
Garbage == {-1, 6}

-----------------------------------------------------------------------------
(* main *)

\* error: the report goes to stderr and the process exits with status 1
Fail(cs, ts, msg) ==
    /\ stderr' = <<error_at(input, cs, ts, msg)>>
    /\ pc' = "exit1"

\* main: lexer.tokenize(), and error(&mut lexer, msg) when it fails
Tokenize ==
    /\ pc = "start"
    /\ LET r == tokenize(chars) IN
       /\ chars' = r.chars
       /\ IF r.ok
          THEN /\ tokens' = r.result
               /\ pc' = "tokenized"
               /\ UNCHANGED stderr
          ELSE /\ UNCHANGED tokens
               /\ Fail(r.chars, tokens, r.msg)
    /\ UNCHANGED <<input, node, stdout, below, stack, rax, rdi, rdx, flags, origin, ret>>

\* what main does with the tree Parser::expr returned and the token cursor
\* it left: it hands the tree to gen
AfterExpr(r) ==
    /\ node' = <<r.node>>
    /\ pc' = "parsed"
    /\ UNCHANGED stderr

\* main: Parser::new(lexer), parser.expr(), and error(&mut parser.lexer, msg)
\* when it fails
Parse ==
    /\ pc = "tokenized"
    /\ LET r == expr(tokens) IN
       /\ tokens' = r.tokens
       /\ IF r.ok
          THEN AfterExpr(r)
          ELSE /\ UNCHANGED node
               /\ Fail(chars, r.tokens, r.msg)
    /\ UNCHANGED <<input, chars, stdout, below, stack, rax, rdi, rdx, flags, origin, ret>>

\* main: the three header lines, gen(node), pop rax and ret
Emit ==
    /\ pc = "parsed"
    /\ stdout' = Prologue \o gen(node[1]) \o Epilogue
    /\ node' = <<>>
    /\ pc' = "emitted"
    /\ UNCHANGED <<input, chars, tokens, stderr, below, stack, rax, rdi, rdx, flags, origin,
                   ret>>

\* the index of the line after the label main:
EntryLine(lines) == 1 + CHOOSE i \in 1..Len(lines) : lines[i] = Line("main:")

\* the emitted program, assembled and called
Run ==
    /\ pc = "emitted"
    /\ \E g \in Garbage :
         LET m == Exec(stdout, EntryLine(stdout), Entry(g)) IN
         /\ pc' = m.status
         /\ stack' = m.stack
         /\ rax' = m.rax
         /\ rdi' = m.rdi
         /\ rdx' = m.rdx
         /\ flags' = m.flags
         /\ below' = m.below
    /\ UNCHANGED <<input, chars, tokens, node, stdout, stderr, origin, ret>>

-----------------------------------------------------------------------------
(* Inputs *)

Alphabet == {"0", "1", "2", "+", "-", "*", "/", "(", ")", "=", "!", "<", ">", " ", "$",
             "U+00E9", "U+3000", "U+0663"}

\* every text of at most MaxLen characters
ShortInputs == UNION {[1..n -> Alphabet] : n \in 0..MaxLen}

\* the decimal text of n >= 0
RECURSIVE Dec(_)
Dec(n) == IF n < 10 THEN <<AsciiDigits[n + 1]>>
          ELSE Dec(n \div 10) \o <<AsciiDigits[(n % 10) + 1]>>

\* the text of the integer a, a minus sign before a negative one
Lit(a) == IF a < 0 THEN <<"-">> \o Dec(-a) ELSE Dec(a)

ArithOps == {"+", "-", "*", "/"}
CmpOps == {"==", "!=", "<", "<=", ">", ">="}
BinOps == ArithOps \cup CmpOps

\* the text of an operator
OpText(op) == CASE op = "==" -> <<"=", "=">>
                [] op = "!=" -> <<"!", "=">>
                [] op = "<=" -> <<"<", "=">>
                [] op = ">=" -> <<">", "=">>
                [] OTHER -> <<op>>

\* the text `x op y` of two texts
Joined(x, op, y) == x \o <<" ">> \o OpText(op) \o <<" ">> \o y

\* the text `a op b` of two integers
BinaryText(a, op, b) == Joined(Lit(a), op, Lit(b))

Paren(x) == <<"(">> \o x \o <<")">>

-----------------------------------------------------------------------------
(* The tree the grammar prescribes *)

\* the binding strength of an operator of the grammar
Prec(op) == CASE op \in {"*", "/"} -> 4
              [] op \in {"+", "-"} -> 3
              [] op \in {"<", "<=", ">", ">="} -> 2
              [] op \in {"==", "!="} -> 1

\* the kind of node an operator is stored as
TagOf(op) == CASE op = "+" -> "Add"
               [] op = "-" -> "Sub"
               [] op = "*" -> "Mul"
               [] op = "/" -> "Div"
               [] op = "==" -> "Eq"
               [] op = "!=" -> "Ne"
               [] op \in {"<", ">"} -> "Lt"
               [] op \in {"<=", ">="} -> "Le"

\* the tree of `l op r`: > and >= are stored as < and <= of the swapped operands
RefBin(op, l, r) == IF op \in {">", ">="} THEN Bin(TagOf(op), r, l) ELSE Bin(TagOf(op), l, r)

\* the tree of an integer: a sign is the unary operator
RefLit(a) == IF a < 0 THEN Bin("Sub", Leaf(0), Leaf(-a)) ELSE Leaf(a)

\* the tree of `a op1 b op2 c`, plain or with one pair of parentheses
RefTernary(o) ==
    LET a == RefLit(o.a)
        b == RefLit(o.b)
        c == RefLit(o.c)
    IN IF o.shape = "left" \/ (o.shape = "flat" /\ Prec(o.op1) >= Prec(o.op2))
       THEN RefBin(o.op2, RefBin(o.op1, a, b), c)
       ELSE RefBin(o.op1, a, RefBin(o.op2, b, c))

-----------------------------------------------------------------------------
(* The program texts main is run on *)

\* the operands of `a op b`: the small integers and the two extremes a
\* literal can denote
ArithOperands == (-MaxOperand..MaxOperand) \cup {-IsizeMax, IsizeMax}

\* the operands of `a op1 b op2 c`
TernaryOperands == {-1} \cup (1..MaxTernaryOperand)

\* the operands a sign is put in front of: a literal, or an expression in
\* parentheses
Primaries == {[text |-> Dec(n), tree |-> Leaf(n)] : n \in 0..MaxOperand}
             \cup {[text |-> Paren(BinaryText(a, op, b)), tree |-> RefBin(op, Leaf(a), Leaf(b))] :
                     a \in 1..2, op \in BinOps, b \in 1..2}

\* the operands of a comparison: a literal, or a sum, difference, product
\* or quotient
Sums == {[text |-> Lit(a), tree |-> RefLit(a)] : a \in -MaxOperand..MaxOperand}
        \cup {[text |-> BinaryText(a, op, b), tree |-> RefBin(op, Leaf(a), Leaf(b))] :
                a \in 1..2, op \in ArithOps, b \in 1..2}

\* the text of `a op1 b op2 c`, plain or with one pair of parentheses
TernaryText(shape, a, op1, b, op2, c) ==
    CASE shape = "flat" -> Joined(BinaryText(a, op1, b), op2, Lit(c))
      [] shape = "left" -> Joined(Paren(BinaryText(a, op1, b)), op2, Lit(c))
      [] shape = "right" -> Joined(Lit(a), op1, Paren(BinaryText(b, op2, c)))

\* the examples of the specification, with the value each is to return
Examples ==
    {[text |-> <<"1", " ", "+", " ", "2", " ", "*", " ", "3">>, value |-> 7],
     [text |-> <<"(", "1", " ", "+", " ", "2", ")", " ", "*", " ", "3">>, value |-> 9],
     [text |-> <<"2", " ", "*", " ", "(", "3", " ", "+", " ", "4", ")", " ", "-", " ", "5">>,
      value |-> 9],
     [text |-> <<"-", "3", " ", "+", " ", "5">>, value |-> 2],
     [text |-> <<"+", "3", " ", "-", " ", "5">>, value |-> -2]}

\* texts longer than MaxLen that end in an error
ErrorTexts == {<<"1", " ", "$", " ", "2">>, <<"(", "1", " ", "+", " ", "2">>,
               <<"1", " ", "+", " ", "2", " ", ")">>, <<"(", "1", " ", "2">>,
               <<"1", " ", "+", " ">>}

\* Lexer::new(in) on the text in, written from org, and nothing printed or run
NewLexer(in, org) ==
    /\ input = in
    /\ origin = org
    /\ chars = in
    /\ tokens = <<>>
    /\ ret = <<>>
    /\ node = <<>>
    /\ stdout = <<>>
    /\ stderr = <<>>
    /\ below = 0
    /\ stack = <<>>
    /\ rax = 0
    /\ rdi = 0
    /\ rdx = 0
    /\ flags = UndefinedFlags

\* the state main starts in on the program text in, written from org
Start(in, org) == NewLexer(in, org) /\ pc = "start"

InitExample == \E e \in Examples : Start(e.text, [form |-> "example", value |-> e.value])

\* any text of at most MaxLen characters
Init ==
    \/ \E in \in ShortInputs \cup ErrorTexts : Start(in, [form |-> "text"])
    \/ InitExample

\* an integer, `a op b`, or a signed operand
InitArith ==
    \/ \E a \in -IsizeMax..IsizeMax : Start(Lit(a), [form |-> "single", a |-> a])
    \/ \E a \in ArithOperands, op \in BinOps, b \in ArithOperands :
         Start(BinaryText(a, op, b), [form |-> "binary", a |-> a, op |-> op, b |-> b])
    \/ \E sign \in {"+", "-"}, x \in Primaries :
         Start(<<sign>> \o x.text, [form |-> "unary", sign |-> sign, x |-> x])
    \/ InitExample

\* `a op1 b op2 c`, or a comparison of two sums or products
InitExpr ==
    \/ \E shape \in {"flat", "left", "right"}, a \in TernaryOperands, op1 \in BinOps,
          b \in TernaryOperands, op2 \in BinOps, c \in TernaryOperands :
         Start(TernaryText(shape, a, op1, b, op2, c),
               [form |-> "ternary", shape |-> shape, a |-> a, op1 |-> op1, b |-> b,
                op2 |-> op2, c |-> c])
    \/ \E x \in Sums, op \in {"<", "<=", ">", ">="}, y \in Sums :
         Start(Joined(x.text, op, y.text), [form |-> "pair", x |-> x, op |-> op, y |-> y])
    \/ InitExample

Next == Tokenize \/ Parse \/ Emit \/ Run

Spec == Init /\ [][Next]_vars

SpecArith == InitArith /\ [][Next]_vars

SpecExpr == InitExpr /\ [][Next]_vars

-----------------------------------------------------------------------------
(* Claims *)

Compiling == pc \in {"start", "tokenized", "parsed", "emitted"}

\* the integer result of an arithmetic operator
Apply(op, a, b) == CASE op = "+" -> a + b
                     [] op = "-" -> a - b
                     [] op = "*" -> a * b
                     [] op = "/" -> TruncDiv(a, b)

\* the truth of a comparison
Holds(op, a, b) == CASE op = "==" -> a = b
                     [] op = "!=" -> a # b
                     [] op = "<" -> a < b
                     [] op = "<=" -> a <= b
                     [] op = ">" -> a > b
                     [] op = ">=" -> a >= b

\* the program of a single integer returns it
SingleReturns == origin.form = "single" => (Compiling \/ (pc = "returned" /\ rax = origin.a))

\* the division of C1 is defined
Defined(o) == ~(o.op = "/" /\ o.b = 0)

\* C1, as stated: the program emitted for a single integer returns that
\* integer, and the program emitted for `a op b`, op one of + - * / and
\* b # 0 under /, returns exactly the integer op of a and b, division
\* truncating toward zero.
C1_ExactResult ==
    /\ SingleReturns
    /\ (origin.form = "binary" /\ origin.op \in ArithOps /\ Defined(origin))
       => (Compiling \/ (pc = "returned" /\ rax = Apply(origin.op, origin.a, origin.b)))

\* C1, amended: the same, with the result of + - * reduced to the width of a
\* register by two's complement wrap-around (it is the exact result
\* whenever that fits the register).
C1_WrappedResult ==
    /\ SingleReturns
    /\ (origin.form = "binary" /\ origin.op \in ArithOps /\ Defined(origin))
       => (Compiling
           \/ (/\ pc = "returned"
               /\ rax = Wrap(Apply(origin.op, origin.a, origin.b))
               /\ (Apply(origin.op, origin.a, origin.b) \in IsizeMin..IsizeMax
                   => rax = Apply(origin.op, origin.a, origin.b))))

\* a negative dividend has been divided: -3 / 2 returned -1
C1_Witness == input = BinaryText(-3, "/", 2) /\ pc = "returned" /\ rax = -1

\* C2: the program emitted for `a op b`, op one of == != < <= > >=,
\* returns exactly 1 when the comparison holds and exactly 0 when it does
\* not.
C2_ComparisonIsZeroOrOne ==
    (origin.form = "binary" /\ origin.op \in CmpOps)
    => (Compiling
        \/ (pc = "returned" /\ rax = IF Holds(origin.op, origin.a, origin.b) THEN 1 ELSE 0))

\* a swapped comparison whose difference overflows has returned true
C2_Witness == input = BinaryText(IsizeMax, ">", -IsizeMax) /\ pc = "returned" /\ rax = 1

-----------------------------------------------------------------------------
(* Claims on the tree *)

\* the tree Parser::expr returns on the tokens of a text
TreeOf(text) == expr(tokenize(text).result).node

\* the lines main prints for a text
Listing(text) == Prologue \o gen(TreeOf(text)) \o Epilogue

RECURSIVE Kinds(_)
\* the kinds of the nodes of a tree
Kinds(n) == {n.kind.tag}
            \cup (IF n.lhs = <<>> THEN {} ELSE Kinds(n.lhs[1]))
            \cup (IF n.rhs = <<>> THEN {} ELSE Kinds(n.rhs[1]))

\* C3: Parser::expr builds the tree the grammar prescribes: unary binds
\* above * /, these above + -, these above < <= > >=, these above == !=,
\* operators of one level associate to the left and an expression in
\* parentheses is one operand; the examples of the specification return
\* 7, 9 and 9.
C3_GrammarTree ==
    /\ origin.form = "ternary" =>
         /\ pc # "exit1"
         /\ pc = "parsed" => node = <<RefTernary(origin)>>
    /\ origin.form = "example" => (Compiling \/ (pc = "returned" /\ rax = origin.value))

\* a lower operator followed by a higher one, and two of one level, have
\* been parsed, and `2 * (3 + 4) - 5` has returned 9
C3_Witness ==
    \/ /\ origin.form = "ternary" /\ origin.shape = "flat" /\ pc = "parsed"
       /\ Prec(origin.op1) < Prec(origin.op2)
       /\ node = <<RefBin(origin.op1, RefLit(origin.a),
                          RefBin(origin.op2, RefLit(origin.b), RefLit(origin.c)))>>
    \/ /\ origin.form = "example" /\ origin.value = 9 /\ Len(input) = 15
       /\ pc = "returned" /\ rax = 9

\* the comparison that is stored as op with its operands swapped
Mirror(op) == CASE op = ">" -> "<"
                [] op = ">=" -> "<="
                [] op = "<" -> ">"
                [] op = "<=" -> ">="

\* C4: `x > y` is parsed to the tree of `y < x`, Lt with the tree of y to
\* the left and that of x to the right, and `x >= y` to the tree of
\* `y <= x`; main prints the same lines for both texts of a pair; no tree
\* holds a node of another kind than Add Sub Mul Div Eq Ne Lt Le Num.
C4_SwappedComparison ==
    /\ (origin.form = "pair" /\ origin.op \in {">", ">="}) =>
         /\ pc # "exit1"
         /\ pc = "parsed" =>
              /\ node = <<Bin(TagOf(origin.op), origin.y.tree, origin.x.tree)>>
              /\ node = <<TreeOf(Joined(origin.y.text, Mirror(origin.op), origin.x.text))>>
         /\ pc = "emitted" =>
              stdout = Listing(Joined(origin.y.text, Mirror(origin.op), origin.x.text))
    /\ pc = "parsed" =>
         Kinds(node[1]) \subseteq {"Add", "Sub", "Mul", "Div", "Eq", "Ne", "Lt", "Le", "Num"}

\* the lines of `1 + 2 > -3` have been printed
C4_Witness ==
    /\ origin.form = "pair" /\ origin.op = ">"
    /\ origin.x.text = BinaryText(1, "+", 2) /\ origin.y.text = Lit(-3)
    /\ pc = "emitted"
    /\ stdout = Listing(Joined(Lit(-3), "<", BinaryText(1, "+", 2)))

\* C5: a leading minus before the operand x is parsed to Sub(Num(0), x)
\* and a leading plus to x itself; `-3 + 5` returns 2 and `+3 - 5`
\* returns -2.
C5_UnarySign ==
    /\ origin.form = "unary" =>
         /\ pc # "exit1"
         /\ pc = "parsed" =>
              node = <<IF origin.sign = "-"
                       THEN Node(NodeKind("Sub"), <<Leaf(0)>>, <<origin.x.tree>>)
                       ELSE origin.x.tree>>
    /\ (origin.form = "example" /\ Head(input) \in {"+", "-"})
       => (Compiling \/ (pc = "returned" /\ rax = origin.value))

\* `-(1 - 2)` has been parsed and `-3 + 5` has returned 2
C5_Witness ==
    \/ /\ origin.form = "unary" /\ origin.sign = "-"
       /\ origin.x.text = Paren(BinaryText(1, "-", 2))
       /\ pc = "parsed"
       /\ node = <<Bin("Sub", Leaf(0), Bin("Sub", Leaf(1), Leaf(2)))>>
    \/ /\ origin.form = "example" /\ Head(input) = "-" /\ pc = "returned" /\ rax = 2

-----------------------------------------------------------------------------
(* Claims on errors and offsets *)

\* main has printed lines or is about to
Compiled == pc \in {"parsed", "emitted", "returned", "trap", "fault"}

\* C6: when Parser::expr returns a tree and the token cursor is not at the
\* EOF token, the compilation ends in an error and prints no line.
C6_TrailingGarbageRejected == Compiled => at_eof(tokens)

\* the kinds of a sequence of tokens
KindsOf(ts) == [i \in 1..Len(ts) |-> ts[i].kind]

\* C7, as stated: tokenize and Parser::expr yield on `-0` the tree they
\* yield on `0`.
C7_MinusZeroSameTree ==
    (input = <<"-", "0">> /\ pc = "parsed") => node = <<TreeOf(<<"0">>)>>

\* C7, amended: `-0` is tokenized to a minus sign and the number 0 and
\* parsed to Sub(Num(0), Num(0)), where `0` is parsed to Num(0); the two
\* programs return the same value, 0.
C7_MinusZeroSameValue ==
    /\ input = <<"-", "0">> =>
         /\ pc = "tokenized" => KindsOf(tokens) = <<KindReserved("Minus"), KindNum(0), KindEOF>>
         /\ pc = "parsed" => node = <<Bin("Sub", Leaf(0), Leaf(0))>>
         /\ Compiling \/ (pc = "returned" /\ rax = 0)
    /\ input = <<"0">> =>
         /\ pc = "parsed" => node = <<Leaf(0)>>
         /\ Compiling \/ (pc = "returned" /\ rax = 0)

\* the program of `-0` has returned 0
C7_Witness == input = <<"-", "0">> /\ pc = "returned" /\ rax = 0 /\ at_eof(tokens)

\* a literal of the text begins with 0 and goes on with a digit
HasLeadingZero(in) ==
    \E i \in 1..(Len(in) - 1) :
        /\ in[i] = "0"
        /\ IsAsciiDigit(in[i + 1])
        /\ (i = 1 \/ ~is_numeric(in[i - 1]))

\* C8: on a text with a literal that begins with 0 and goes on with
\* further digits, tokenize does not succeed.
C8_LeadingZeroNotLexed == HasLeadingZero(input) => pc \in {"start", "exit1"}

\* s is what is left of in from some character on
IsSuffix(s, in) == Len(s) <= Len(in) /\ s = Skip(in, Len(in) - Len(s))

\* the text left at token t begins with the text of t
BeginsAtToken(t) ==
    CASE t.kind.tag = "Reserved" ->
           /\ Len(t.chars) >= Len(ReservedStr(t.kind.sym))
           /\ SubSeq(t.chars, 1, Len(ReservedStr(t.kind.sym))) = ReservedStr(t.kind.sym)
      [] t.kind.tag = "Num" -> t.chars # <<>> /\ IsAsciiDigit(Head(t.chars))
      [] t.kind.tag = "EOF" -> t.chars = <<>>

\* C9: the text stored with every token begins at the first character of
\* the token, and the offset of a parse error is the byte offset at which
\* the token at the cursor begins, the length of the text at EOF.
C9_SuffixBeginsAtToken ==
    /\ pc = "tokenized" =>
         \A i \in 1..Len(tokens) : IsSuffix(tokens[i].chars, input) /\ BeginsAtToken(tokens[i])
    /\ (pc = "exit1" /\ tokens # <<>>) =>
         /\ BeginsAtToken(Head(tokens))
         /\ stderr[1].pos = ByteLen(input) - ByteLen(Head(tokens).chars)

\* a character no token begins with
IsOther(c) == ~is_whitespace(c) /\ ~is_numeric(c)
              /\ c \notin {"(", ")", "+", "-", "*", "/", "=", "!", "<", ">"}

\* the byte offset of the first such character of a text
FirstOtherOffset(in) ==
    LET i == CHOOSE i \in 1..Len(in) :
                 IsOther(in[i]) /\ \A j \in 1..(i - 1) : ~IsOther(in[j])
    IN ByteLen(SubSeq(in, 1, i - 1))

\* C10: when tokenize fails on a character that begins no token, the
\* offset error_at reports is the byte offset of that character in the
\* text, and no token is stored in the lexer.
C10_OffsetOfOffendingChar ==
    (pc = "exit1" /\ stderr[1].msg = MsgCannotTokenize) =>
        /\ stderr[1].pos = FirstOtherOffset(input)
        /\ tokens = <<>>

\* the text is one literal of ASCII digits, not beginning with 0, whose
\* value does not fit isize
IsOverflowingLiteral(in) ==
    /\ in # <<>>
    /\ \A i \in 1..Len(in) : IsAsciiDigit(in[i])
    /\ in[1] # "0"
    /\ DecVal(in, IsizeMax) = -1

\* C11: when the digit run tokenize scanned does not fit isize, the failure
\* reported is the message alone: it carries no offset taken from the scan
\* cursor.
C11_OverflowHasNoOffset ==
    (pc = "exit1" /\ IsOverflowingLiteral(input)) => DOMAIN stderr[1] = {"msg"}

-----------------------------------------------------------------------------
(* Claims on the parser's results and the token cursor *)

\* the kinds of the nodes with two operands
BinaryKinds == {"Add", "Sub", "Mul", "Div", "Eq", "Ne", "Lt", "Le"}

RECURSIVE WellFormed(_)
\* a number leaf has no child; a node of any other kind is one of the
\* eight binary kinds and has both children, well formed in turn
WellFormed(n) ==
    IF n.kind.tag = "Num" THEN n.lhs = <<>> /\ n.rhs = <<>>
    ELSE /\ n.kind.tag \in BinaryKinds
         /\ Len(n.lhs) = 1 /\ Len(n.rhs) = 1
         /\ WellFormed(n.lhs[1]) /\ WellFormed(n.rhs[1])

\* the tokens of ts that are the reserved symbol sym
CountOf(ts, sym) ==
    Cardinality({i \in 1..Len(ts) : ts[i].kind = KindReserved(sym)})

\* the tokens of a text main has tokenized
TokensOf(in) == tokenize(in).result

\* main is past a failure of Parser::expr
ParseFailed == pc = "exit1" /\ tokens # <<>>

\* C12: a tree Parser::expr returns is well formed; when a sub-rule fails
\* expr returns no tree, nothing is printed, and the error is the one the
\* failing rule raised at the token the cursor is left on (primary: neither
\* a number nor an opening parenthesis; expect: not the closing
\* parenthesis); and no text with a missing operand or an unclosed
\* parenthesis is parsed to its end.
C12_WellFormedOrError ==
    /\ pc = "parsed" => Len(node) = 1 /\ WellFormed(node[1])
    /\ ParseFailed =>
         /\ node = <<>>
         /\ stdout = <<>>
         /\ \/ /\ stderr[1].msg = MsgUnexpectedToken
               /\ Head(tokens).kind.tag # "Num"
               /\ Head(tokens).kind # KindReserved("LeftParen")
            \/ /\ stderr[1].msg = MsgNotReserved("RightParen")
               /\ Head(tokens).kind # KindReserved("RightParen")
    /\ (pc = "parsed" /\ at_eof(tokens)) =>
         LET ts == TokensOf(input) IN
         /\ Len(ts) >= 2
         /\ \/ ts[Len(ts) - 1].kind.tag = "Num"
            \/ ts[Len(ts) - 1].kind = KindReserved("RightParen")
         /\ CountOf(ts, "LeftParen") = CountOf(ts, "RightParen")

\* the tree of `2 * (3 + 4) - 5` has been returned
C12_Witness ==
    /\ pc = "parsed"
    /\ node[1].kind.tag = "Sub"
    /\ node[1].lhs[1].kind.tag = "Mul"
    /\ node[1].lhs[1].rhs[1].kind.tag = "Add"
    /\ WellFormed(node[1])

-----------------------------------------------------------------------------
(* The methods of the Lexer, called one at a time on a lexer of their own, *)
(* as the tests of lexer.rs and the rules of the Parser call them          *)

\* longest text of the exhaustive family the scanning methods are called on
MaxScanLen == 3
\* longest text of the exhaustive family the token cursor is walked on
MaxCursorLen == 3

\* the value a method returned, without the cursor the model carries along
ResultOf(call, r) == [f \in (DOMAIN r \ {"chars", "tokens"}) \cup {"call"} |->
                         IF f = "call" THEN call ELSE r[f]]

\* lexer.take_num_str() on a new lexer
TakeNumStr ==
    /\ pc = "lexer"
    /\ LET r == take_num_str(chars) IN
       /\ chars' = r.chars
       /\ ret' = <<ResultOf("take_num_str", r)>>
    /\ pc' = "scanned"
    /\ UNCHANGED <<input, tokens, node, stdout, stderr, below, stack, rax, rdi, rdx, flags,
                   origin>>

\* the texts start_with is called with
StartPatterns == {<<"=", "=">>, <<"!", "=">>, <<"<", "=">>, <<">", "=">>, <<"<">>, <<">">>,
                  <<>>, <<"<", "=", "=">>}

\* lexer.start_with(s) on a new lexer: &self, the cursor is cloned
StartWith ==
    /\ pc = "lexer"
    /\ \E s \in StartPatterns :
         ret' = <<[call |-> "start_with", s |-> s, value |-> start_with(chars, s)]>>
    /\ UNCHANGED <<input, chars, tokens, pc, node, stdout, stderr, below, stack, rax, rdi, rdx,
                   flags, origin>>

\* lexer.tokenize() on a new lexer
LexTokenize ==
    /\ pc = "lexer"
    /\ LET r == tokenize(chars) IN
       /\ chars' = r.chars
       /\ tokens' = IF r.ok THEN r.result ELSE tokens
       /\ ret' = <<ResultOf("tokenize", r)>>
       /\ pc' = IF r.ok THEN "lexed" ELSE "lex_failed"
    /\ UNCHANGED <<input, node, stdout, stderr, below, stack, rax, rdi, rdx, flags, origin>>

\* lexer.at_eof(), before or after tokenize
AtEof ==
    /\ pc \in {"lexer", "lexed"}
    /\ ret' = <<[call |-> "at_eof", value |-> at_eof(tokens)]>>
    /\ UNCHANGED <<input, chars, tokens, pc, node, stdout, stderr, below, stack, rax, rdi, rdx,
                   flags, origin>>

\* lexer.consume(sym), before or after tokenize
Consume ==
    /\ pc \in {"lexer", "lexed"}
    /\ \E sym \in Reserved :
         LET r == consume(tokens, sym) IN
         /\ tokens' = r.tokens
         /\ ret' = <<[call |-> "consume", sym |-> sym, ok |-> r.ok]>>
    /\ UNCHANGED <<input, chars, pc, node, stdout, stderr, below, stack, rax, rdi, rdx, flags,
                   origin>>

\* lexer.expect(sym), before or after tokenize
Expect ==
    /\ pc \in {"lexer", "lexed"}
    /\ \E sym \in Reserved :
         LET r == expect(tokens, sym) IN
         /\ tokens' = r.tokens
         /\ ret' = <<IF r.ok THEN [call |-> "expect", sym |-> sym, ok |-> TRUE]
                      ELSE [call |-> "expect", sym |-> sym, ok |-> FALSE, msg |-> r.msg]>>
    /\ UNCHANGED <<input, chars, pc, node, stdout, stderr, below, stack, rax, rdi, rdx, flags,
                   origin>>

\* lexer.expect_number(), before or after tokenize
ExpectNumber ==
    /\ pc \in {"lexer", "lexed"}
    /\ LET r == expect_number(tokens) IN
       /\ tokens' = r.tokens
       /\ ret' = <<ResultOf("expect_number", r)>>
    /\ UNCHANGED <<input, chars, pc, node, stdout, stderr, below, stack, rax, rdi, rdx, flags,
                   origin>>

\* the characters of the texts the scanning methods are called on
ScanAlphabet == {"0", "1", "+", "-", " ", "a", "=", "!", "<", ">", "U+0663"}

\* every text of at most MaxScanLen of them, and the texts of the tests of
\* lexer.rs and main.rs
ScanInputs ==
    UNION {[1..n -> ScanAlphabet] : n \in 0..MaxScanLen}
    \cup {<<"1", "2", "3">>, <<"+", "4", "5", "6">>, <<"-", "7", "8", "9">>,
          <<"1", "2", "3", "a">>, <<"5", "+", "2", "0">>, <<"h", "e", "l", "l", "o">>}

\* the characters of the texts the token cursor is walked on
CursorAlphabet == {"1", "+", "(", ")", "<", "="}

CursorInputs == UNION {[1..n -> CursorAlphabet] : n \in 0..MaxCursorLen}

InitScan == \E in \in ScanInputs : NewLexer(in, [form |-> "scan"]) /\ pc = "lexer"

InitCursor == \E in \in CursorInputs : NewLexer(in, [form |-> "cursor"]) /\ pc = "lexer"

NextScan == TakeNumStr \/ StartWith \/ LexTokenize

NextCursor == LexTokenize \/ AtEof \/ Consume \/ Expect \/ ExpectNumber

\* the scanning methods on a new lexer
SpecScan == InitScan /\ [][NextScan]_vars

\* tokenize, and before and after it any sequence of calls on the token cursor
SpecCursor == InitCursor /\ [][NextCursor]_vars

-----------------------------------------------------------------------------
(* Claims on the scanning methods *)

\* the text cs begins with the text s
IsPrefix(s, cs) == Len(s) <= Len(cs) /\ SubSeq(cs, 1, Len(s)) = s

\* the comparison operator a text begins with, the longer one first
LongestMatch(cs) ==
    IF IsPrefix(<<"=", "=">>, cs) THEN <<"Eq">>
    ELSE IF IsPrefix(<<"!", "=">>, cs) THEN <<"Ne">>
    ELSE IF IsPrefix(<<"<", "=">>, cs) THEN <<"Le">>
    ELSE IF IsPrefix(<<">", "=">>, cs) THEN <<"Ge">>
    ELSE IF IsPrefix(<<"<">>, cs) THEN <<"Lt">>
    ELSE IF IsPrefix(<<">">>, cs) THEN <<"Gt">>
    ELSE <<>>

\* the text left once the operator cs begins with is taken off
AfterMatch(cs) == Skip(cs, Len(ReservedStr(LongestMatch(cs)[1])))

\* a text with a `=` or a `!` that begins no operator
HasLoneEquals(in) ==
    \E i \in 1..Len(in) :
        /\ in[i] \in {"=", "!"}
        /\ (i = Len(in) \/ in[i + 1] # "=")
        /\ (in[i] = "!" \/ i = 1 \/ in[i - 1] \notin {"=", "!", "<", ">"})

\* C13: start_with(s) is true exactly when the text left begins with s and
\* leaves the scan cursor where it was; where the text left begins with a
\* comparison operator tokenize emits the longest one and goes on after its
\* last character (2 characters on for == != <= >=, 1 on for < >); at a
\* `=` or a `!` that no `=` follows it fails.
C13_LongestMatch ==
    /\ (ret # <<>> /\ ret[1].call = "start_with") =>
         /\ ret[1].value = IsPrefix(ret[1].s, input)
         /\ chars = input
    /\ pc = "lexed" =>
         \A i \in 1..Len(tokens) :
             LongestMatch(tokens[i].chars) # <<>> /\ tokens[i].kind.tag # "Num" =>
                 /\ tokens[i].kind = KindReserved(LongestMatch(tokens[i].chars)[1])
                 /\ SubSeq(tokens, i + 1, Len(tokens)) = TokensOf(AfterMatch(tokens[i].chars))
    /\ (pc = "lex_failed" /\ LongestMatch(input) # <<>>) =>
         /\ ~tokenize(AfterMatch(input)).ok
         /\ chars = tokenize(AfterMatch(input)).chars
         /\ ret[1].msg = tokenize(AfterMatch(input)).msg
    /\ (pc = "lex_failed" /\ ret[1].msg = MsgUnexpectedChar) =>
         /\ chars # <<>> /\ Head(chars) \in {"=", "!"}
         /\ ~(Len(chars) >= 2 /\ chars[2] = "=")
    /\ HasLoneEquals(input) => pc # "lexed"

\* tokenize has emitted Le for `<=` and gone on with the 1 after it
C13_Witness ==
    /\ pc = "lexed"
    /\ input = <<"<", "=", "1">>
    /\ KindsOf(tokens) = <<KindReserved("Le"), KindNum(1), KindEOF>>

RECURSIVE LeadingBlanks(_)
\* the white space a text begins with
LeadingBlanks(cs) ==
    IF cs # <<>> /\ is_whitespace(Head(cs)) THEN 1 + LeadingBlanks(Tail(cs)) ELSE 0

\* the text from its first character that is not white space
Body(in) == Skip(in, LeadingBlanks(in))

RECURSIVE DigitRunLen(_)
\* the digits (char::is_numeric) a text begins with
DigitRunLen(cs) ==
    IF cs # <<>> /\ is_numeric(Head(cs)) THEN 1 + DigitRunLen(Tail(cs)) ELSE 0

\* the digits of the literal a text of digits begins with: a single 0, or
\* the whole run of digits
LiteralDigits(cs) == IF Head(cs) = "0" THEN <<"0">> ELSE SubSeq(cs, 1, DigitRunLen(cs))

\* the text begins, after white space, with a sign
Signed(in) == Body(in) # <<>> /\ Head(Body(in)) \in {"+", "-"}

\* and a digit follows the sign
SignedLiteral(in) == Signed(in) /\ Len(Body(in)) >= 2 /\ is_numeric(Body(in)[2])

\* take_num_str has returned
Scanned == pc = "scanned" /\ ret[1].call = "take_num_str"

\* C14: a sign at the start of the literal is taken when a digit follows:
\* the text returned leaves out a plus sign, keeps a minus sign before a
\* digit other than 0 and is `0` for `-0`; a sign no digit follows makes
\* the scan fail with the empty text and the sign, the cursor at the sign.
C14_SignHandling ==
    (Scanned /\ Signed(input)) =>
        LET sign == Head(Body(input))
            digits == LiteralDigits(Tail(Body(input)))
        IN IF SignedLiteral(input)
           THEN ret[1].s = IF sign = "-" /\ Head(digits) # "0" THEN <<"-">> \o digits
                           ELSE digits
           ELSE /\ ret[1] = [call |-> "take_num_str", ok |-> FALSE, s |-> <<>>, c |-> sign]
                /\ chars = Body(input)

\* `-0` has been scanned to the text `0`
C14_Witness ==
    /\ Scanned
    /\ input = <<"-", "0">>
    /\ ret[1] = [call |-> "take_num_str", ok |-> TRUE, s |-> <<"0">>]

\* the text begins, after white space, with a digit
PlainLiteral(in) == Body(in) # <<>> /\ is_numeric(Head(Body(in)))

\* the text after the sign, if there is one, of a text that begins with a
\* literal
FromFirstDigit(in) == IF SignedLiteral(in) THEN Tail(Body(in)) ELSE Body(in)

\* C15: take_num_str stops at the first character that cannot go on with
\* the literal and leaves the cursor on it: after the digits d1..dn, d1
\* other than 0, or after a single leading 0, it returns Ok(digits) at the
\* end of the text and Err((digits, c)) at a character c.
C15_StopsAtOffendingChar ==
    (Scanned /\ (PlainLiteral(input) \/ SignedLiteral(input))) =>
        LET digits == LiteralDigits(FromFirstDigit(input))
            rest == Skip(FromFirstDigit(input), Len(digits))
        IN /\ chars = rest
           /\ ret[1].ok = (rest = <<>>)
           /\ ~ret[1].ok => ret[1].c = Head(rest)
           /\ PlainLiteral(input) => ret[1].s = digits

\* `123a` has been scanned to Err(("123", 'a')), the cursor on the a
C15_Witness ==
    /\ Scanned
    /\ input = <<"1", "2", "3", "a">>
    /\ ret[1] = [call |-> "take_num_str", ok |-> FALSE, s |-> <<"1", "2", "3">>, c |-> "a"]
    /\ chars = <<"a">>

-----------------------------------------------------------------------------
(* Claims on the token cursor *)

\* the next token is the reserved symbol sym
NextIsReserved(sym) == tokens # <<>> /\ Head(tokens).kind = KindReserved(sym)

\* the next token is a number
NextIsNumber == tokens # <<>> /\ Head(tokens).kind.tag = "Num"

\* the call moved the cursor one token on
Advanced == tokens' = Tail(tokens)

\* what a call of consume, expect or expect_number does to the cursor and
\* returns, for the token the cursor was on
CursorStep ==
    LET r == ret'[1] IN
    /\ r.call = "consume" =>
         IF NextIsReserved(r.sym) THEN r.ok /\ Advanced ELSE ~r.ok /\ UNCHANGED tokens
    /\ r.call = "expect" =>
         IF NextIsReserved(r.sym) THEN r.ok /\ Advanced
         ELSE ~r.ok /\ r.msg = MsgNotReserved(r.sym) /\ UNCHANGED tokens
    /\ r.call = "expect_number" =>
         IF NextIsNumber THEN r.ok /\ r.num = Head(tokens).kind.num /\ Advanced
         ELSE ~r.ok /\ UNCHANGED tokens
    /\ r.call = "at_eof" => UNCHANGED tokens

\* C16: wherever the token cursor is, consume(sym) and expect(sym) succeed
\* and move it one token on exactly when the next token is Reserved(sym),
\* expect_number succeeds, returns the value and moves it one token on
\* exactly when the next token is a number, and a call that fails leaves
\* the cursor where it was.
C16_CursorFrame == [][CursorStep]_vars

\* on `1+1`, after the number, consume(Plus) has succeeded and left the
\* cursor on the second number
C16_Witness ==
    /\ pc = "lexed"
    /\ input = <<"1", "+", "1">>
    /\ ret = <<[call |-> "consume", sym |-> "Plus", ok |-> TRUE]>>
    /\ KindsOf(tokens) = <<KindNum(1), KindEOF>>

\* the last token of ts is EOF, and no other one is
EndsWithOneEof(ts) ==
    /\ ts # <<>>
    /\ \A i \in 1..Len(ts) : (ts[i].kind = KindEOF) = (i = Len(ts))

\* C17: the tokens tokenize returns as Ok end with an EOF token and hold no
\* other one; whatever consume, expect and expect_number calls follow, the
\* cursor still has that EOF token as its last, so a next token is there
\* at every peek.
C17_EofSentinel ==
    /\ (ret # <<>> /\ ret[1].call = "tokenize" /\ ret[1].ok) => EndsWithOneEof(ret[1].result)
    /\ pc = "lexed" => EndsWithOneEof(tokens)

\* every token of `1+1` consumed, and expect_number refused at the EOF token
C17_Witness ==
    /\ pc = "lexed"
    /\ input = <<"1", "+", "1">>
    /\ ret = <<[call |-> "expect_number", ok |-> FALSE, msg |-> MsgNotANumber]>>
    /\ KindsOf(tokens) = <<KindEOF>>

-----------------------------------------------------------------------------
(* Claims on the stack of the emitted program *)

RECURSIVE Subtrees(_)
\* a tree and every tree below it
Subtrees(n) ==
    {n} \cup (IF n.lhs # <<>> THEN Subtrees(n.lhs[1]) ELSE {})
        \cup (IF n.rhs # <<>> THEN Subtrees(n.rhs[1]) ELSE {})

\* the stacks the code of a tree is started on
StartingStacks == {<<>>, <<5>>, <<-1, 6>>}

\* the machine after the lines, started on the stack s0 with g in the
\* registers: trapped, or past the last line
RunFrom(lines, s0, g) == Exec(lines, 1, [Entry(g) EXCEPT !.stack = s0])

\* the value the code of a tree leaves on an empty stack
ValueOf(n, g) == RunFrom(gen(n), <<>>, g).stack[1]

\* C18: the lines gen prints are stack-balanced.  Started on any stack, the
\* code of every tree of a well-formed tree pops nothing it has not pushed
\* and, when it does not trap, leaves the stack one value deeper and what
\* was below untouched; the code of the left operand comes first, then
\* that of the right one, so that rdi gets the value of the right operand
\* and rax that of the left one (their difference is what Sub leaves); and
\* the program returns with the stack at its depth at entry.
C18_StackBalanced ==
    /\ pc = "parsed" =>
         \A s \in Subtrees(node[1]), g \in Garbage, s0 \in StartingStacks :
             LET m == RunFrom(gen(s), s0, g) IN
             /\ m.below = 0
             /\ m.status # "trap" => m.stack = s0 \o <<ValueOf(s, g)>>
             /\ s.kind.tag # "Num" =>
                  /\ IsPrefix(gen(s.lhs[1]) \o gen(s.rhs[1]), gen(s))
                  /\ m.status # "trap" =>
                       /\ m.rdi = ValueOf(s.rhs[1], g)
                       /\ s.kind.tag = "Sub" =>
                            ValueOf(s, g) = Wrap(ValueOf(s.lhs[1], g) - ValueOf(s.rhs[1], g))
    /\ pc \in {"returned", "trap"} => below = 0
    /\ pc = "returned" => stack = <<>>
    /\ pc # "fault"

\* the program of `2 * (3 + 4) - 5` has returned 9, the right operand 5 in
\* rdi, the stack at its depth at entry
C18_Witness ==
    /\ pc = "returned"
    /\ origin.form = "example" /\ Head(input) = "2"
    /\ rax = 9 /\ rdi = 5
    /\ stack = <<>> /\ below = 0

====
